---- MODULE Spec2Model ----
(***************************************************************************)
(* Model of src/app/src/app/page.tsx: the lexical analysis pipeline        *)
(* (analyzeText, buildInsights, generateAgentReply) and the React session  *)
(* state of the Home component (processChunk, the recognition handlers,    *)
(* beginListening, stopListening, handleManualSubmit).                     *)
(*                                                                         *)
(* Text is a sequence of one-character strings, so that trim, toLowerCase, *)
(* the regular-expression replace and the whitespace split are computed    *)
(* character by character as the source does.  Numbers that the source     *)
(* holds as floats are exact rationals <<num, den>> in lowest terms.       *)
(***************************************************************************)
EXTENDS Integers, Sequences, FiniteSets, TLC

\* ------------------------------------------------------------------ bounds
MaxTyped == 8        \* accepted fragments in a session without a speech engine
MaxSpoken == 2       \* accepted fragments in a session with a speech engine
MaxClock == 1        \* largest Date.now() value explored
MaxWords == 3        \* accepted fragments in a session of longer typed fragments

\* ------------------------------------------------------- program constants
TrailCap == 6           \* next.slice(-6)
KeywordCap == 6         \* .slice(0, 6)
ClusterCap == 3         \* keywords.slice(0, 3)
InsightCap == 5         \* .slice(0, 5)
MinTokenLen == 3        \* token.length > 2
SentimentFloor == 4     \* Math.max(clean.length, 4)
EnergySpan == 45        \* clean.length / 45
HeadlineCap == 2        \* analysis.keywords.slice(0, 2)

\* -------------------------------------------------------------- characters
LowerLetters ==
    <<"a", "b", "c", "d", "e", "f", "g", "h", "i", "j", "k", "l", "m",
      "n", "o", "p", "q", "r", "s", "t", "u", "v", "w", "x", "y", "z">>
UpperLetters ==
    <<"A", "B", "C", "D", "E", "F", "G", "H", "I", "J", "K", "L", "M",
      "N", "O", "P", "Q", "R", "S", "T", "U", "V", "W", "X", "Y", "Z">>
Digits == {"0", "1", "2", "3", "4", "5", "6", "7", "8", "9"}
WhiteSpace == {" ", "\t", "\n"}

Range(f) == {f[i] : i \in DOMAIN f}
LowerSet == Range(LowerLetters)
UpperSet == Range(UpperLetters)
LowerOf == [c \in UpperSet |-> LowerLetters[CHOOSE i \in 1..26 : UpperLetters[i] = c]]
UpperOf == [c \in LowerSet |-> UpperLetters[CHOOSE i \in 1..26 : LowerLetters[i] = c]]
\* the characters /[a-z0-9\s]/ matches
AlnumOrSpace == LowerSet \cup Digits \cup WhiteSpace

\* String.prototype.toLowerCase / toUpperCase on one character
LowerChar(c) == IF c \in UpperSet THEN LowerOf[c] ELSE c
UpperChar(c) == IF c \in LowerSet THEN UpperOf[c] ELSE c

\* Array.prototype.map and its like: the sequence of the values f[1], f[2], ...
\* of a function on 1..n
array(f) == f \o <<>>

toLowerCase(str) == array([i \in DOMAIN str |-> LowerChar(str[i])])

\* .replace(/[^a-z0-9\s]/g, " ")
replaceNonAlnum(str) ==
    array([i \in DOMAIN str |->
              IF str[i] \in AlnumOrSpace THEN str[i] ELSE " "])

RECURSIVE trimStart(_)
trimStart(str) ==
    IF str # <<>> /\ Head(str) \in WhiteSpace THEN trimStart(Tail(str)) ELSE str

RECURSIVE trimEnd(_)
trimEnd(str) ==
    IF str # <<>> /\ str[Len(str)] \in WhiteSpace
    THEN trimEnd(SubSeq(str, 1, Len(str) - 1)) ELSE str

\* String.prototype.trim
trim(str) == trimEnd(trimStart(str))

\* .split(/\s+/): the pieces between maximal runs of whitespace; a leading or
\* trailing run leaves an empty piece, as in JavaScript.  splitFrom gives the
\* pieces of str from index i on, where a piece starts.
RECURSIVE splitFrom(_, _)
splitFrom(str, i) ==
    LET spaces == { j \in i..Len(str) : str[j] \in WhiteSpace }
        stop == IF spaces = {} THEN Len(str) + 1
                ELSE CHOOSE j \in spaces : \A k \in spaces : j <= k
        others == { j \in stop..Len(str) : str[j] \notin WhiteSpace }
        next == IF others = {} THEN Len(str) + 1
                ELSE CHOOSE j \in others : \A k \in others : j <= k
    IN  IF stop > Len(str) THEN <<SubSeq(str, i, Len(str))>>
        ELSE <<SubSeq(str, i, stop - 1)>> \o splitFrom(str, next)
splitWhitespace(str) == splitFrom(str, 1)

\* capitalize: input.charAt(0).toUpperCase() + input.slice(1)
capitalize(input) ==
    IF input = <<>> THEN <<>> ELSE <<UpperChar(input[1])>> \o Tail(input)

RECURSIVE joinWith(_, _)
joinWith(parts, sep) ==
    IF parts = <<>> THEN <<>>
    ELSE IF Len(parts) = 1 THEN parts[1]
    ELSE parts[1] \o sep \o joinWith(Tail(parts), sep)

\* Array.prototype.slice(0, n) and slice(-n)
sliceFirst(arr, n) == SubSeq(arr, 1, IF Len(arr) < n THEN Len(arr) ELSE n)
sliceLast(arr, n) == SubSeq(arr, IF Len(arr) > n THEN Len(arr) - n + 1 ELSE 1, Len(arr))

\* ----------------------------------------------------------- exact numbers
RECURSIVE GCD(_, _)
GCD(a, b) == IF b = 0 THEN a ELSE GCD(b, a % b)
Abs(n) == IF n < 0 THEN -n ELSE n
Rat(n, d) ==
    LET g == GCD(Abs(n), d) IN <<n \div g, d \div g>>
RatAdd(x, y) == Rat(x[1] * y[2] + y[1] * x[2], x[2] * y[2])
RatSub(x, y) == Rat(x[1] * y[2] - y[1] * x[2], x[2] * y[2])
RatMul(x, y) == Rat(x[1] * y[1], x[2] * y[2])
RatAbs(x) == <<Abs(x[1]), x[2]>>
RatLess(x, y) == x[1] * y[2] < y[1] * x[2]
RatMax(x, y) == IF RatLess(x, y) THEN y ELSE x
RatMin(x, y) == IF RatLess(y, x) THEN y ELSE x
\* Math.round: the nearest integer, halves towards +infinity
RatRound(x) == (2 * x[1] + x[2]) \div (2 * x[2])

\* clamp = Math.min(max, Math.max(min, value))
clamp(value, min, max) == RatMin(max, RatMax(min, value))

\* page.tsx:68-105
STOP_WORDS ==
    { <<"t", "h", "e">>,
      <<"a", "n", "d">>,
      <<"t", "h", "a", "t">>,
      <<"h", "a", "v", "e">>,
      <<"t", "h", "i", "s">>,
      <<"w", "i", "t", "h">>,
      <<"f", "r", "o", "m">>,
      <<"y", "o", "u", "r">>,
      <<"a", "b", "o", "u", "t">>,
      <<"t", "h", "e", "r", "e">>,
      <<"w", "h", "a", "t">>,
      <<"w", "h", "e", "n">>,
      <<"w", "i", "l", "l">>,
      <<"w", "o", "u", "l", "d">>,
      <<"c", "o", "u", "l", "d">>,
      <<"s", "h", "o", "u", "l", "d">>,
      <<"w", "h", "i", "c", "h">>,
      <<"i", "n", "t", "o">>,
      <<"o", "v", "e", "r">>,
      <<"u", "n", "d", "e", "r">>,
      <<"w", "h", "i", "l", "e">>,
      <<"w", "h", "e", "r", "e">>,
      <<"b", "e", "e", "n">>,
      <<"w", "e", "r", "e">>,
      <<"t", "h", "e", "m">>,
      <<"t", "h", "e", "y">>,
      <<"t", "h", "e", "n">>,
      <<"t", "h", "a", "n">>,
      <<"j", "u", "s", "t">>,
      <<"l", "i", "k", "e">>,
      <<"r", "e", "a", "l", "l", "y">>,
      <<"m", "a", "y", "b", "e">>,
      <<"k", "n", "o", "w">>,
      <<"w", "a", "n", "t">>,
      <<"n", "e", "e", "d">>,
      <<"p", "l", "e", "a", "s", "e">> }

\* page.tsx:107-123
POSITIVE_TERMS ==
    { <<"g", "r", "e", "a", "t">>,
      <<"g", "o", "o", "d">>,
      <<"a", "w", "e", "s", "o", "m", "e">>,
      <<"e", "x", "c", "i", "t", "e", "d">>,
      <<"o", "p", "t", "i", "m", "i", "s", "t", "i", "c">>,
      <<"l", "o", "v", "e">>,
      <<"a", "m", "a", "z", "i", "n", "g">>,
      <<"w", "i", "n">>,
      <<"g", "r", "o", "w", "t", "h">>,
      <<"p", "o", "s", "i", "t", "i", "v", "e">>,
      <<"u", "p">>,
      <<"b", "e", "t", "t", "e", "r">>,
      <<"i", "m", "p", "r", "o", "v", "e">>,
      <<"s", "u", "c", "c", "e", "s", "s">>,
      <<"i", "n", "c", "r", "e", "a", "s", "e">> }

\* page.tsx:125-140
NEGATIVE_TERMS ==
    { <<"b", "a", "d">>,
      <<"p", "r", "o", "b", "l", "e", "m">>,
      <<"i", "s", "s", "u", "e">>,
      <<"c", "o", "n", "c", "e", "r", "n">>,
      <<"s", "t", "u", "c", "k">>,
      <<"r", "i", "s", "k">>,
      <<"d", "o", "w", "n">>,
      <<"d", "e", "c", "l", "i", "n", "e">>,
      <<"w", "o", "r", "s", "e">>,
      <<"f", "a", "i", "l">>,
      <<"f", "e", "a", "r">>,
      <<"u", "n", "c", "e", "r", "t", "a", "i", "n">>,
      <<"h", "a", "r", "d">>,
      <<"d", "i", "f", "f", "i", "c", "u", "l", "t">> }

\* ------------------------------------------------------------- analyzeText
\* .filter((token) => token && token.length > 2 && !STOP_WORDS.has(token))
keepToken(token) ==
    /\ token # <<>>
    /\ Len(token) >= MinTokenLen
    /\ token \notin STOP_WORDS

\* const clean = content.toLowerCase().replace(...).split(/\s+/).filter(...)
cleanTokens(content) ==
    SelectSeq(splitWhitespace(replaceNonAlnum(toLowerCase(content))), keepToken)

\* frequency: a Map, whose entries keep the order of first insertion
RECURSIVE countInto(_, _)
countInto(entries, token) ==
    IF entries = <<>> THEN <<[token |-> token, count |-> 1]>>
    ELSE IF Head(entries).token = token
         THEN <<[token |-> token, count |-> Head(entries).count + 1]>> \o Tail(entries)
         ELSE <<Head(entries)>> \o countInto(Tail(entries), token)

RECURSIVE frequencyOf(_)
frequencyOf(clean) ==
    IF clean = <<>> THEN <<>>
    ELSE countInto(frequencyOf(SubSeq(clean, 1, Len(clean) - 1)), clean[Len(clean)])

frequencyGet(entries, token) ==
    IF \E i \in DOMAIN entries : entries[i].token = token
    THEN entries[CHOOSE i \in DOMAIN entries : entries[i].token = token].count
    ELSE 1

\* .sort((a, b) => b[1] - a[1]): Array.prototype.sort is stable, so entries of
\* equal count keep their insertion order.
RECURSIVE insertByCount(_, _)
insertByCount(sorted, entry) ==
    IF sorted = <<>> THEN <<entry>>
    ELSE IF Head(sorted).count >= entry.count
         THEN <<Head(sorted)>> \o insertByCount(Tail(sorted), entry)
         ELSE <<entry>> \o sorted

RECURSIVE sortByCountDesc(_)
sortByCountDesc(entries) ==
    IF entries = <<>> THEN <<>>
    ELSE insertByCount(sortByCountDesc(SubSeq(entries, 1, Len(entries) - 1)),
                       entries[Len(entries)])

\* faulty variant: the entries are not sorted before the cut
keywordsOf_unsorted(frequency) ==
    LET top == sliceFirst(frequency, KeywordCap)
    IN  array([i \in DOMAIN top |-> top[i].token])

keywordsOf(frequency) ==
    LET top == sliceFirst(sortByCountDesc(frequency), KeywordCap)
    IN  array([i \in DOMAIN top |-> top[i].token])

hits(clean, terms) == Len(SelectSeq(clean, LAMBDA token : token \in terms))

sentimentOf(clean) ==
    LET n == Len(clean)
        positiveHits == hits(clean, POSITIVE_TERMS)
        negativeHits == hits(clean, NEGATIVE_TERMS)
    IN  clamp(Rat(positiveHits - negativeHits,
                  IF n > SentimentFloor THEN n ELSE SentimentFloor),
              <<-1, 1>>, <<1, 1>>)

\* faulty variant: the energy is not clamped
energyOf_unclamped(clean, sentiment) ==
    RatAdd(Rat(Len(clean), EnergySpan), RatMul(RatAbs(sentiment), Rat(45, 100)))

energyOf(clean, sentiment) ==
    clamp(RatAdd(Rat(Len(clean), EnergySpan), RatMul(RatAbs(sentiment), Rat(45, 100))),
          <<0, 1>>, <<1, 1>>)

\* the summary template of a cluster, with its two holes (the typographic
\* quotes of the source are written as apostrophes)
Summary(keyword, clarity) ==
    [template |-> "Emerging signal around '${keyword}' with ${clarity}% clarity.",
     keyword |-> keyword, clarity |-> clarity]

clusterOf(keyword, frequency, n, energy) ==
    LET scoreSeed == Rat(frequencyGet(frequency, keyword), IF n > 1 THEN n ELSE 1)
        score == clamp(RatAdd(RatMul(scoreSeed, <<2, 1>>), RatMul(energy, Rat(6, 10))),
                       <<0, 1>>, <<1, 1>>)
    IN  [label |-> capitalize(keyword),
         score |-> score,
         summary |-> Summary(keyword, RatRound(RatMul(score, <<100, 1>>)))]

analyzeText(content) ==
    LET clean == cleanTokens(content) IN
    IF Len(clean) = 0
    THEN [keywords |-> <<>>, sentiment |-> <<0, 1>>, energy |-> <<0, 1>>, clusters |-> <<>>]
    ELSE LET frequency == frequencyOf(clean)
             keywords == keywordsOf(frequency)
             sentiment == sentimentOf(clean)
             energy == energyOf(clean, sentiment)
             top == sliceFirst(keywords, ClusterCap)
         IN  [keywords |-> keywords,
              sentiment |-> sentiment,
              energy |-> energy,
              clusters |-> array([i \in DOMAIN top |->
                                     clusterOf(top[i], frequency, Len(clean), energy)])]

\* ------------------------------------------------------ generateAgentReply
FixedReply(text) ==
    [template |-> text, tone |-> "", headline |-> <<>>, trend |-> "", closing |-> ""]

ReadyReply ==
    FixedReply("Ready when you are. Share your thought and I will map the field in real-time.")
OpenMicReply ==
    FixedReply("Open mic. Speak your idea and I'll plot the Grok visual in real-time.")
StreamingReply ==
    FixedReply("Streaming... anchoring the Grok visual to your voice signal.")
PausedReply ==
    FixedReply("Mic paused. Drop another thought or type it in to extend the Grok visual.")

generateAgentReply(latestChunk, analysis) ==
    IF trim(latestChunk) = <<>> THEN ReadyReply
    ELSE
    LET tone == IF RatLess(Rat(2, 10), analysis.sentiment) THEN "Uplifted"
                ELSE IF RatLess(analysis.sentiment, Rat(-2, 10)) THEN "Cautious"
                ELSE "Neutral"
        top == sliceFirst(analysis.keywords, HeadlineCap)
        \* the separator is " \u00B7 " (a middle dot), written "*" here
        headline == joinWith(array([i \in DOMAIN top |-> capitalize(top[i])]),
                            <<" ", "*", " ">>)
        trendDirection ==
            IF RatLess(Rat(15, 100), analysis.sentiment) THEN "momentum is tilting upward"
            ELSE IF RatLess(analysis.sentiment, Rat(-15, 100)) THEN "momentum is cooling down"
            ELSE "signal is steady"
        closing ==
            IF RatLess(Rat(7, 10), analysis.energy)
            THEN "Let's chase that spike before it dissipates."
            ELSE IF RatLess(analysis.energy, Rat(3, 10))
            THEN "We can probe deeper if you want to expand the field."
            ELSE "I'm maintaining orbit. Drop another detail when ready."
    IN  [template |-> "${tone} Grok vector locked. ${headline} indicates ${trendDirection}. ${closing}",
         tone |-> tone,
         headline |-> IF headline = <<>> THEN <<"L", "i", "s", "t", "e", "n", "i", "n", "g">>
                      ELSE headline,
         trend |-> trendDirection,
         closing |-> closing]

\* ----------------------------------------------------------- buildInsights
FixedDetail(text) == [template |-> text, keyword |-> <<>>, clarity |-> 0]

BASE_INSIGHTS ==
    << [id |-> <<"b", "a", "s", "e", "l", "i", "n", "e", "-", "v", "e", "l", "o", "c", "i", "t", "y">>,
        label |-> <<"S", "i", "g", "n", "a", "l", " ", "V", "e", "l", "o", "c", "i", "t", "y">>,
        detail |-> FixedDetail("Live trendline for how quickly the conversation is evolving."),
        pulse |-> Rat(48, 100), delta |-> Rat(6, 100)],
       [id |-> <<"b", "a", "s", "e", "l", "i", "n", "e", "-", "c", "o", "m", "p", "o", "s", "u", "r", "e">>,
        label |-> <<"A", "g", "e", "n", "t", " ", "C", "o", "m", "p", "o", "s", "u", "r", "e">>,
        detail |-> FixedDetail("Ambient calm from the voice agent's prosodic fingerprint."),
        pulse |-> Rat(62, 100), delta |-> Rat(-4, 100)],
       [id |-> <<"b", "a", "s", "e", "l", "i", "n", "e", "-", "f", "o", "c", "u", "s">>,
        label |-> <<"F", "o", "c", "u", "s", " ", "F", "i", "e", "l", "d">>,
        detail |-> FixedDetail("Dominant node describing the most coherent cluster in view."),
        pulse |-> Rat(55, 100), delta |-> Rat(8, 100)] >>

\* faulty variant: the id does not carry the label of the cluster
dynamicInsight_fixedId(cluster, index, sentiment) ==
    [id |-> <<"c", "l", "u", "s", "t", "e", "r", "-">>,
     label |-> cluster.label \o <<" ", "S", "i", "g", "n", "a", "l">>,
     detail |-> cluster.summary,
     pulse |-> clamp(RatAdd(RatAdd(Rat(35, 100), RatMul(cluster.score, Rat(55, 100))),
                            Rat(index, 10)),
                     Rat(2, 10), Rat(95, 100)),
     delta |-> clamp(RatSub(RatAdd(RatMul(sentiment, Rat(6, 10)),
                                   RatMul(cluster.score, Rat(3, 10))),
                            Rat(5 * index, 100)),
                     Rat(-4, 10), Rat(4, 10))]

dynamicInsight(cluster, index, sentiment) ==
    [id |-> <<"c", "l", "u", "s", "t", "e", "r", "-">> \o toLowerCase(cluster.label),
     label |-> cluster.label \o <<" ", "S", "i", "g", "n", "a", "l">>,
     detail |-> cluster.summary,
     pulse |-> clamp(RatAdd(RatAdd(Rat(35, 100), RatMul(cluster.score, Rat(55, 100))),
                            Rat(index, 10)),
                     Rat(2, 10), Rat(95, 100)),
     delta |-> clamp(RatSub(RatAdd(RatMul(sentiment, Rat(6, 10)),
                                   RatMul(cluster.score, Rat(3, 10))),
                            Rat(5 * index, 100)),
                     Rat(-4, 10), Rat(4, 10))]

\* faulty variant: the baseline insights are put in front of the dynamic ones
buildInsights_baselineFirst(analysis) ==
    IF Len(analysis.keywords) = 0 THEN BASE_INSIGHTS
    ELSE LET dynamic == array([i \in DOMAIN analysis.clusters |->
                                  dynamicInsight(analysis.clusters[i], i - 1,
                                                 analysis.sentiment)])
         IN  sliceFirst(BASE_INSIGHTS \o dynamic, InsightCap)

buildInsights(analysis) ==
    IF Len(analysis.keywords) = 0 THEN BASE_INSIGHTS
    ELSE LET dynamic == array([i \in DOMAIN analysis.clusters |->
                                  dynamicInsight(analysis.clusters[i], i - 1,
                                                 analysis.sentiment)])
         IN  sliceFirst(dynamic \o BASE_INSIGHTS, InsightCap)


\* ============================================================ session state
VARIABLES
    transcript,       \* useState(""): the live-preview text
    segments,         \* useState([]): the segment trail
    compiledText,     \* useState(""): the Corpus
    agentReply,       \* useState("Open mic. ...")
    isListening,      \* useState(false)
    lastUpdate,       \* useState(() => Date.now())
    manualInput,      \* useState("")
    interimRef,       \* useRef("")
    analysis,         \* useMemo(() => analyzeText(compiledText), [compiledText])
    insights,         \* useMemo(() => buildInsights(analysis), [analysis])
    speechSupported,  \* getRecognitionConstructor() !== null
    recognition,      \* the engine behind recognitionRef: "idle", "running", "stopping"
    now,              \* the value Date.now() returns
    accepted,         \* history: the trimmed text of every accepted fragment
    last              \* history: the step that ran last, the number of
                      \* fragments it accepted and the event it was given

vars == <<transcript, segments, compiledText, agentReply, isListening, lastUpdate,
          manualInput, interimRef, analysis, insights, speechSupported, recognition,
          now, accepted, last>>

\* ------------------------------------------------------------------ inputs
Win == <<" ", "w", "i", "n">>
Risk == <<"R", "i", "s", "k", "!">>
Blank == <<" ">>

\* what is typed into the manual input of a session with an engine, and of a
\* session without one, where every fragment is typed
ManualInputs == { Blank, Risk }
TypedInputs == { Blank, Risk, Win }

\* longer fragments typed into the manual input: nine occurrences of a
\* positive term; words none of which passes the token filter; eight words,
\* seven of them different, the last one twice; two negative terms
Cheer ==
    <<"W", "i", "n", " ", "w", "i", "n", " ", "w", "i", "n", " ", "w", "i",
      "n", " ", "w", "i", "n", " ", "w", "i", "n", " ", "w", "i", "n", " ",
      "w", "i", "n", " ", "w", "i", "n">>
Noise ==
    <<"t", "h", "e", " ", "i", "t", ",", " ", "u", "p", "!">>
Many ==
    <<"a", "n", "t", " ", "b", "e", "e", " ", "c", "a", "t", " ", "d", "o",
      "g", " ", "e", "e", "l", " ", "f", "o", "x", " ", "g", "n", "u", " ",
      "g", "n", "u">>
Grim ==
    <<"R", "i", "s", "k", ";", " ", "f", "a", "i", "l">>
WordInputs == { Cheer, Noise, Many, Grim }

\* An entry of event.results; present = FALSE is an entry that reads
\* undefined, and an empty transcript is what result[0]?.transcript ?? ""
\* gives for a missing alternative.
Result(isFinal, text) == [present |-> TRUE, isFinal |-> isFinal, transcript |-> text]
UndefinedResult == [present |-> FALSE, isFinal |-> FALSE, transcript |-> <<>>]

\* the results an event may carry in its first and in its second entry
FirstResults ==
    { Result(TRUE, Win), Result(TRUE, Blank), Result(FALSE, <<" ", "w", "i">>),
      UndefinedResult }
SecondResults ==
    { Result(TRUE, Risk), Result(TRUE, Blank), Result(FALSE, <<"n">>),
      Result(TRUE, <<>>) }

\* A recognition event: a list of two results, read from resultIndex on.
Events ==
    { [resultIndex |-> 0, results |-> <<a, b>>] : a \in FirstResults, b \in SecondResults }
    \cup { [resultIndex |-> 1, results |-> <<Result(TRUE, Win), b>>] :
              b \in { Result(TRUE, Risk), Result(FALSE, <<"n">>) } }

\* ------------------------------------------------------------ processChunk
\* `${Date.now()}-${prev.length}`: the two numbers determine the string and
\* the string determines the two numbers.
segmentId(ms, length) == [ms |-> ms, length |-> length]

\* the values the handlers read and write, as one record
Session ==
    [transcript |-> transcript, segments |-> segments, compiledText |-> compiledText,
     agentReply |-> agentReply, lastUpdate |-> lastUpdate, interimRef |-> interimRef,
     accepted |-> accepted]

\* faulty variant: the cap keeps the oldest entries, slice(0, 6)
appendSegment_keepOldest(prev, trimmed, ms) ==
    LET next == Append(prev, [id |-> segmentId(ms, Len(prev)),
                              text |-> trimmed,
                              timestamp |-> ms])
    IN  sliceFirst(next, TrailCap)

appendSegment(prev, trimmed, ms) ==
    LET next == Append(prev, [id |-> segmentId(ms, Len(prev)),
                              text |-> trimmed,
                              timestamp |-> ms])
    IN  sliceLast(next, TrailCap)

\* faulty variant: the new fragment is put in front of the Corpus
appendText_prepend(prev, trimmed) ==
    IF prev # <<>> THEN trimmed \o <<" ">> \o prev ELSE trimmed

appendText(prev, trimmed) ==
    IF prev # <<>> THEN prev \o <<" ">> \o trimmed ELSE trimmed

\* faulty variant: no early return for a fragment that trims to empty
processChunk_noGuard(st, content, ms) ==
    LET trimmed == trim(content)
        next == appendText(st.compiledText, trimmed)
        computed == analyzeText(next)
    IN  [st EXCEPT !.segments = appendSegment(@, trimmed, ms),
                   !.compiledText = next,
                   !.agentReply = generateAgentReply(trimmed, computed),
                   !.lastUpdate = ms,
                   !.transcript = <<>>,
                   !.interimRef = <<>>,
                   !.accepted = Append(@, trimmed)]

processChunk(st, content, ms) ==
    LET trimmed == trim(content) IN
    IF trimmed = <<>> THEN st
    ELSE LET next == appendText(st.compiledText, trimmed)
             computed == analyzeText(next)
         IN  [st EXCEPT !.segments = appendSegment(@, trimmed, ms),
                        !.compiledText = next,
                        !.agentReply = generateAgentReply(trimmed, computed),
                        !.lastUpdate = ms,
                        !.transcript = <<>>,
                        !.interimRef = <<>>,
                        !.accepted = Append(@, trimmed)]

\* ------------------------------------------------------ recognition.onresult
\* faulty variant: the loop does not look at isFinal
onresultStep_allFinal(acc, event, i, ms) ==
    LET result == event.results[i + 1]
        textFragment == result.transcript
    IN  IF ~result.present THEN acc
        ELSE IF textFragment = <<>> THEN acc
        ELSE [acc EXCEPT !.st = processChunk(@, textFragment, ms)]

\* the body of the for loop, for the (0-based) index i
onresultStep(acc, event, i, ms) ==
    LET result == event.results[i + 1]
        textFragment == result.transcript
    IN  IF ~result.present THEN acc
        ELSE IF textFragment = <<>> THEN acc
        ELSE IF result.isFinal
             THEN [acc EXCEPT !.st = processChunk(@, textFragment, ms)]
             ELSE [acc EXCEPT !.liveTranscript = @ \o textFragment]

\* faulty variant: the loop runs from the last index down to resultIndex
RECURSIVE onresultLoop_descending(_, _, _, _)
onresultLoop_descending(acc, event, i, ms) ==
    IF i < Len(event.results)
    THEN onresultStep(onresultLoop_descending(acc, event, i + 1, ms), event, i, ms)
    ELSE acc

RECURSIVE onresultLoop(_, _, _, _)
onresultLoop(acc, event, i, ms) ==
    IF i < Len(event.results)
    THEN onresultLoop(onresultStep(acc, event, i, ms), event, i + 1, ms)
    ELSE acc

\* faulty variant: the handler does not store liveTranscript
onresult_keepsPreview(st, event, ms) ==
    onresultLoop([st |-> st, liveTranscript |-> <<>>], event, event.resultIndex, ms).st

onresult(st, event, ms) ==
    LET done == onresultLoop([st |-> st, liveTranscript |-> <<>>], event,
                             event.resultIndex, ms)
    IN  [done.st EXCEPT !.interimRef = done.liveTranscript,
                        !.transcript = done.liveTranscript]

\* what the history holds as the event of a handler that is given none
NoEvent == [resultIndex |-> 0, results |-> <<>>]

\* --------------------------------------------------------- render and commit
\* The state updates of one handler are committed together; the two useMemo
\* values are recomputed in the render that follows when their dependency
\* changed.
\* faulty variant: useMemo with an empty dependency list
useMemoAnalysis_stale(nextText) == analysis

useMemoAnalysis(nextText) ==
    IF nextText # compiledText THEN analyzeText(nextText) ELSE analysis

useMemoInsights(nextAnalysis, recomputed) ==
    IF recomputed THEN buildInsights(nextAnalysis) ELSE insights

Commit(next, op, event) ==
    \E st \in {next} :
        /\ transcript' = st.transcript
        /\ segments' = st.segments
        /\ compiledText' = st.compiledText
        /\ agentReply' = st.agentReply
        /\ lastUpdate' = st.lastUpdate
        /\ interimRef' = st.interimRef
        /\ accepted' = st.accepted
        /\ analysis' = useMemoAnalysis(st.compiledText)
        /\ insights' = useMemoInsights(analysis', st.compiledText # compiledText)
        /\ last' = [op |-> op, n |-> Len(st.accepted) - Len(accepted), event |-> event]

\* -------------------------------------------------------------------- Init
\* the state after the first render and its effect
Mounted ==
    /\ transcript = <<>>
    /\ segments = <<>>
    /\ compiledText = <<>>
    /\ agentReply = OpenMicReply
    /\ isListening = FALSE
    /\ now = 0
    /\ lastUpdate = now
    /\ manualInput = <<>>
    /\ interimRef = <<>>
    /\ analysis = analyzeText(compiledText)
    /\ insights = buildInsights(analysis)
    /\ recognition = "idle"
    /\ accepted = <<>>
    /\ last = [op |-> "mount", n |-> 0, event |-> NoEvent]

\* a browser with a speech recognition engine
Init == Mounted /\ speechSupported = TRUE

\* a browser without one: "Browser mic API unavailable - type below to simulate."
InitTyped == Mounted /\ speechSupported = FALSE

\* ----------------------------------------------------------------- actions
\* the number of fragments a session is explored to
Limit == IF speechSupported THEN MaxSpoken ELSE MaxTyped

\* time passes between two handlers
Tick ==
    /\ now < MaxClock
    /\ now' = now + 1
    /\ last' = [op |-> "tick", n |-> 0, event |-> NoEvent]
    /\ UNCHANGED <<transcript, segments, compiledText, agentReply, isListening,
                   lastUpdate, manualInput, interimRef, analysis, insights,
                   speechSupported, recognition, accepted>>

\* onChange={(event) => setManualInput(event.target.value)}
SetManualInput(value) ==
    /\ manualInput' = value
    /\ Commit(Session, "setManualInput", NoEvent)
    /\ UNCHANGED <<isListening, speechSupported, recognition, now>>

handleManualSubmit ==
    /\ IF trim(manualInput) = <<>>
       THEN /\ Commit(Session, "handleManualSubmit", NoEvent)
            /\ UNCHANGED manualInput
       ELSE /\ Len(accepted) < Limit
            /\ Commit(processChunk(Session, manualInput, now), "handleManualSubmit", NoEvent)
            /\ manualInput' = <<>>
    /\ UNCHANGED <<isListening, speechSupported, recognition, now>>

\* faulty variant: setIsListening(true) runs before start(), so a start()
\* that throws leaves the flag set
beginListening_flagFirst ==
    /\ speechSupported
    /\ ~isListening
    /\ isListening' = TRUE
    /\ IF recognition = "idle"
       THEN /\ recognition' = "running"
            /\ Commit([Session EXCEPT !.agentReply = StreamingReply], "beginListening", NoEvent)
       ELSE /\ UNCHANGED recognition
            /\ Commit(Session, "beginListening", NoEvent)
    /\ UNCHANGED <<manualInput, speechSupported, now>>

\* The two buttons are rendered only when speechSupported, and
\* "Tap to Capture" is disabled while isListening.  start() throws when the
\* engine has been started and has not ended yet; the catch swallows that.
beginListening ==
    /\ speechSupported
    /\ ~isListening
    /\ IF recognition = "idle"
       THEN /\ recognition' = "running"
            /\ isListening' = TRUE
            /\ Commit([Session EXCEPT !.agentReply = StreamingReply], "beginListening", NoEvent)
       ELSE /\ UNCHANGED <<recognition, isListening>>
            /\ Commit(Session, "beginListening", NoEvent)
    /\ UNCHANGED <<manualInput, speechSupported, now>>

\* "Hold Orbit" is disabled unless isListening.  stop() asks the engine to
\* stop capturing audio; the engine ends later, with its end event.
stopListening ==
    /\ speechSupported
    /\ isListening
    /\ recognition' = IF recognition = "running" THEN "stopping" ELSE recognition
    /\ isListening' = FALSE
    /\ Commit([Session EXCEPT !.agentReply = PausedReply], "stopListening", NoEvent)
    /\ UNCHANGED <<manualInput, speechSupported, now>>

finalCount(event) ==
    Cardinality({ i \in DOMAIN event.results :
                     /\ i > event.resultIndex
                     /\ event.results[i].present
                     /\ event.results[i].isFinal
                     /\ trim(event.results[i].transcript) # <<>> })

\* the engine reports results from start() until its end event
OnResult(event) ==
    /\ recognition \in {"running", "stopping"}
    /\ Len(accepted) + finalCount(event) <= Limit
    /\ Commit(onresult(Session, event, now), "onresult", event)
    /\ UNCHANGED <<isListening, manualInput, speechSupported, recognition, now>>

\* faulty variant: the error handler also reports in the Reply
OnError_reports ==
    /\ recognition \in {"running", "stopping"}
    /\ isListening' = FALSE
    /\ Commit([Session EXCEPT !.agentReply = PausedReply], "onerror", NoEvent)
    /\ UNCHANGED <<manualInput, speechSupported, recognition, now>>

\* recognition.onerror
OnError ==
    /\ recognition \in {"running", "stopping"}
    /\ isListening' = FALSE
    /\ Commit(Session, "onerror", NoEvent)
    /\ UNCHANGED <<manualInput, speechSupported, recognition, now>>

\* recognition.onend
OnEnd ==
    /\ recognition \in {"running", "stopping"}
    /\ recognition' = "idle"
    /\ isListening' = FALSE
    /\ Commit(Session, "onend", NoEvent)
    /\ UNCHANGED <<manualInput, speechSupported, now>>

Next ==
    \/ Tick
    \/ \E value \in ManualInputs : SetManualInput(value)
    \/ handleManualSubmit
    \/ beginListening
    \/ stopListening
    \/ \E event \in Events : OnResult(event)
    \/ OnError
    \/ OnEnd

Spec == Init /\ [][Next]_vars

\* the handlers that can run when no engine exists: the buttons of
\* beginListening and stopListening are not rendered and no event arrives
NextTyped ==
    \/ Tick
    \/ \E value \in TypedInputs : SetManualInput(value)
    \/ handleManualSubmit

SpecTyped == InitTyped /\ [][NextTyped]_vars

\* a session without an engine into which the longer fragments are typed,
\* within one millisecond: what analyzeText and buildInsights yield does not
\* depend on the clock
NextWords ==
    \/ \E value \in WordInputs : SetManualInput(value)
    \/ (trim(manualInput) = <<>> \/ Len(accepted) < MaxWords) /\ handleManualSubmit

SpecWords == InitTyped /\ [][NextWords]_vars


\* ================================================================== claims
texts(trail) == array([i \in DOMAIN trail |-> trail[i].text])
Grew == Len(accepted') > Len(accepted)
IsPrefix(s, t) == Len(s) <= Len(t) /\ SubSeq(t, 1, Len(s)) = s

\* C1: the segment trail never holds more than 6 entries, and its texts are
\* the most recent min(n, 6) accepted fragments, oldest first, newest last.
C1_TrailHoldsMostRecent ==
    LET n == Len(accepted)
        k == IF n < 6 THEN n ELSE 6
    IN  /\ Len(segments) <= 6
        /\ Len(segments) = k
        /\ \A i \in 1..k : segments[i].text = accepted[n - k + i]

\* eight fragments were accepted, so the first two are gone from the trail
C1_Witness ==
    /\ Len(accepted) = 8
    /\ Len(segments) = 6
    /\ accepted[2] # accepted[3]
    /\ segments[1].text = accepted[3]
    /\ segments[6].text = accepted[8]

\* the results of an event that its loop visits, in index order
visited(event) == SubSeq(event.results, event.resultIndex + 1, Len(event.results))

\* a recognition event that offers processChunk a blank fragment and nothing
\* that it accepts
BlankFinalsOnly(event) ==
    /\ \E i \in DOMAIN visited(event) :
          /\ visited(event)[i].isFinal
          /\ visited(event)[i].transcript # <<>>
    /\ \A i \in DOMAIN visited(event) :
          visited(event)[i].isFinal => trim(visited(event)[i].transcript) = <<>>

\* C2: submitting a fragment that is empty or whitespace-only, by a manual
\* submit or as a final speech result, changes neither the trail, the Corpus,
\* the Analysis, the Insight list, the Reply nor the last-modified timestamp.
C2_BlankIsNoOp ==
    [][ /\ (last'.op = "handleManualSubmit" /\ trim(manualInput) = <<>>)
           => UNCHANGED <<segments, compiledText, analysis, insights, agentReply,
                          lastUpdate>>
        /\ (last'.op = "onresult" /\ BlankFinalsOnly(last'.event))
           => UNCHANGED <<segments, compiledText, analysis, insights, agentReply,
                          lastUpdate>> ]_vars

\* a whitespace-only manual input was submitted in a session that already
\* holds accepted fragments
C2_Witness ==
    /\ last.op = "handleManualSubmit"
    /\ last.n = 0
    /\ manualInput = <<" ">>
    /\ Len(accepted) >= 1

\* C3: the Corpus is the accepted fragments joined by single spaces, in the
\* order of acceptance; an acceptance makes the old Corpus a strict prefix of
\* the new one, and no step shortens the Corpus.
C3_CorpusIsJoin ==
    /\ [](compiledText = joinWith(accepted, <<" ">>))
    /\ [][ /\ IsPrefix(compiledText, compiledText')
           /\ Grew => Len(compiledText') > Len(compiledText) ]_vars

\* two different fragments were accepted, the second by the handler that
\* ran last
C3_Witness ==
    /\ Len(accepted) = 2
    /\ last.n >= 1
    /\ accepted[1] # accepted[2]
    /\ compiledText = accepted[1] \o <<" ">> \o accepted[2]

\* C4: in every observable state the Analysis is analyzeText of the Corpus
\* and the Insight list is buildInsights of that Analysis, and the state that
\* follows an acceptance shows the Reply generated for the accepted fragment
\* and the Analysis of the new Corpus.
C4_AcceptanceIsAtomic ==
    /\ analysis = analyzeText(compiledText)
    /\ insights = buildInsights(analysis)
    /\ last.n >= 1 =>
          agentReply = generateAgentReply(accepted[Len(accepted)],
                                          analyzeText(compiledText))

\* a fragment was just accepted into a Corpus that already held another one
C4_Witness ==
    /\ last.n >= 1
    /\ Len(accepted) >= 2
    /\ accepted[1] # accepted[2]
    /\ agentReply.tone # ""
    /\ Len(analysis.keywords) = 2

\* C5: the segments of the trail have pairwise different ids.
C5_SegmentIdsUnique ==
    \A i, j \in DOMAIN segments : i # j => segments[i].id # segments[j].id

NonFinalOnly(event) ==
    /\ visited(event) # <<>>
    /\ \A i \in DOMAIN visited(event) : ~visited(event)[i].isFinal

\* the transcripts of the visited non-final results, concatenated in index order
RECURSIVE concatNonFinal(_)
concatNonFinal(results) ==
    IF results = <<>> THEN <<>>
    ELSE (IF Head(results).present /\ ~Head(results).isFinal
          THEN Head(results).transcript ELSE <<>>) \o concatNonFinal(Tail(results))

\* C7: a recognition event whose results from resultIndex on are all
\* non-final leaves the Corpus, the Analysis, the Insight list and the trail
\* unchanged; it sets the live-preview text.
C7_InterimLeavesCorpus ==
    [][ (last'.op = "onresult" /\ NonFinalOnly(last'.event))
        => /\ UNCHANGED <<compiledText, analysis, insights, segments>>
           /\ transcript' = concatNonFinal(visited(last'.event)) ]_vars

\* an event of two interim results arrived in a session that holds a fragment
C7_Witness ==
    /\ last.op = "onresult"
    /\ NonFinalOnly(last.event)
    /\ transcript = <<" ", "w", "i", "n">>
    /\ Len(accepted) >= 1

\* the fragments an event has accepted: the trimmed transcripts of its visited
\* final results that do not trim to empty, in index order
RECURSIVE acceptedOf(_)
acceptedOf(results) ==
    IF results = <<>> THEN <<>>
    ELSE (IF /\ Head(results).present
             /\ Head(results).isFinal
             /\ trim(Head(results).transcript) # <<>>
          THEN <<trim(Head(results).transcript)>> ELSE <<>>)
         \o acceptedOf(Tail(results))

\* C8: the final results of one recognition event are accepted in increasing
\* index order from resultIndex on: the Corpus grows by those fragments in
\* that order, the trail gains one segment for each of them in that order,
\* and the Reply is the one of the last of them against the Analysis that
\* the new state shows (by C4 the Analysis of the new Corpus).
C8_FinalsInIndexOrder ==
    [][ last'.op = "onresult" =>
          LET fs == acceptedOf(visited(last'.event)) IN
          /\ accepted' = accepted \o fs
          /\ compiledText' =
                joinWith((IF compiledText = <<>> THEN <<>> ELSE <<compiledText>>) \o fs,
                         <<" ">>)
          /\ LET all == texts(segments) \o fs
             IN  texts(segments') =
                   SubSeq(all, IF Len(all) > 6 THEN Len(all) - 5 ELSE 1, Len(all))
          /\ fs # <<>> => agentReply' = generateAgentReply(fs[Len(fs)], analysis') ]_vars

\* one event carried two different final fragments and both were accepted
C8_Witness ==
    /\ last.op = "onresult"
    /\ last.n = 2
    /\ accepted[Len(accepted) - 1] # accepted[Len(accepted)]
    /\ Len(segments) >= 2

\* C9 as stated: the state that follows an acceptance has an empty
\* live-preview text, and after a recognition event the live-preview text is
\* the concatenation of the event's non-final transcripts.
C9_PreviewClearedOnAcceptance ==
    [][ /\ Grew => transcript' = <<>>
        /\ last'.op = "onresult" =>
              transcript' = concatNonFinal(visited(last'.event)) ]_vars

\* C9 as amended: the state that follows an accepted manual submit has an
\* empty live-preview text, and after a recognition event the live-preview
\* text is the concatenation of the event's non-final transcripts, also when
\* the event has accepted a fragment.
C9_PreviewIsNonFinalText ==
    [][ /\ (Grew /\ last'.op = "handleManualSubmit") => transcript' = <<>>
        /\ last'.op = "onresult" =>
              /\ transcript' = concatNonFinal(visited(last'.event))
              /\ interimRef' = transcript' ]_vars

\* an event accepted a fragment and left a live-preview text
C9_Witness ==
    /\ last.op = "onresult"
    /\ last.n >= 1
    /\ transcript # <<>>

\* C10: stopListening leaves the Corpus, the trail, the Analysis, the Insight
\* list and the last-modified timestamp as they were, and no speech fragment
\* is accepted between a stop and the next start of the engine.
C10_StopHaltsDelivery ==
    [][ /\ last'.op = "stopListening" =>
              UNCHANGED <<compiledText, segments, analysis, insights, lastUpdate>>
        /\ (last'.op = "onresult" /\ Grew) => recognition # "stopping" ]_vars


\* C11: a failure of the speech engine (a start() that throws, an error
\* event, an end event) leaves the listening flag false and leaves the
\* Corpus, the trail, the Analysis and the Insight list as they were; the
\* handler completes, so nothing is thrown at its caller.
C11_EngineFailureOnlyClearsFlag ==
    [][ (\/ last'.op = "beginListening" /\ recognition # "idle"
         \/ last'.op = "onerror"
         \/ last'.op = "onend")
        => /\ isListening' = FALSE
           /\ UNCHANGED <<compiledText, segments, analysis, insights>> ]_vars

\* start() threw because the engine had not ended yet, in a session that
\* holds an accepted fragment
C11_Witness ==
    /\ last.op = "beginListening"
    /\ recognition # "idle"
    /\ ~isListening
    /\ Len(accepted) >= 1

IsBaseline(insight) == \E i \in DOMAIN BASE_INSIGHTS : BASE_INSIGHTS[i] = insight
Least(a, b) == IF a < b THEN a ELSE b

\* C12: the Insight list is the first 5 entries of the dynamic insights, one
\* for each cluster in cluster order, followed by the 3 baseline insights in
\* their fixed order: it has at most 5 entries, no baseline insight stands
\* before a dynamic one, and for an Analysis without keywords it is the
\* baseline triple.
C12_InsightsDynamicThenBaseline ==
    LET k == Len(analysis.clusters) IN
    /\ Len(insights) <= 5
    /\ Len(insights) = Least(k + 3, 5)
    /\ \A i \in DOMAIN insights :
          IF i <= k
          THEN insights[i] = dynamicInsight(analysis.clusters[i], i - 1, analysis.sentiment)
          ELSE insights[i] = BASE_INSIGHTS[i - k]
    /\ \A i, j \in DOMAIN insights :
          (i < j /\ IsBaseline(insights[i])) => IsBaseline(insights[j])
    /\ analysis.keywords = <<>> =>
          /\ insights = BASE_INSIGHTS
          /\ array([i \in DOMAIN insights |-> insights[i].id]) =
                << <<"b", "a", "s", "e", "l", "i", "n", "e", "-",
                     "v", "e", "l", "o", "c", "i", "t", "y">>,
                   <<"b", "a", "s", "e", "l", "i", "n", "e", "-",
                     "c", "o", "m", "p", "o", "s", "u", "r", "e">>,
                   <<"b", "a", "s", "e", "l", "i", "n", "e", "-",
                     "f", "o", "c", "u", "s">> >>

\* three clusters: the list is cut after the second baseline insight
C12_Witness ==
    /\ Len(analysis.clusters) = 3
    /\ Len(insights) = 5
    /\ ~IsBaseline(insights[3])
    /\ insights[4] = BASE_INSIGHTS[1]
    /\ insights[5] = BASE_INSIGHTS[2]

Between(x, low, high) == ~RatLess(x, low) /\ ~RatLess(high, x)

\* C13: for the Corpus of every reachable state the sentiment lies in
\* [-1, 1] and the energy in [0, 1]; for a Corpus without a qualifying
\* token, the empty one included, sentiment and energy are 0 and there are
\* no keywords and no clusters.
C13_ScoresInRange ==
    LET computed == analyzeText(compiledText) IN
    /\ Between(computed.sentiment, <<-1, 1>>, <<1, 1>>)
    /\ Between(computed.energy, <<0, 1>>, <<1, 1>>)
    /\ cleanTokens(compiledText) = <<>> =>
          /\ computed.sentiment = <<0, 1>>
          /\ computed.energy = <<0, 1>>
          /\ computed.keywords = <<>>
          /\ computed.clusters = <<>>

\* 27 positive tokens: their number over 45 plus 0.45 exceeds 1, and the
\* energy is 1
C13_Witness ==
    /\ Len(cleanTokens(compiledText)) = 27
    /\ analysis.sentiment = <<1, 1>>
    /\ analysis.energy = <<1, 1>>

\* the normalized tokens of the Corpus, the number of occurrences of a token
\* among them and the index of its first occurrence
occurrences(tokens, token) == Cardinality({ i \in DOMAIN tokens : tokens[i] = token })
firstSeen(tokens, token) ==
    CHOOSE i \in DOMAIN tokens :
        tokens[i] = token /\ \A j \in DOMAIN tokens : tokens[j] = token => i <= j

\* C14: the keyword list holds at most 6 pairwise distinct tokens, each a
\* normalized token of the Corpus (lowercase letters and digits, longer than
\* 2, not a stop word), in the order of non-increasing number of occurrences
\* and, among equal numbers, of first occurrence; no token left out occurs
\* more often than a listed one.
C14_KeywordsAreTopTokens ==
    LET tokens == cleanTokens(compiledText)
        keywords == analyzeText(compiledText).keywords
        listed == Range(keywords)
    IN  /\ Len(keywords) <= 6
        /\ \A i, j \in DOMAIN keywords : i # j => keywords[i] # keywords[j]
        /\ \A i \in DOMAIN keywords :
              /\ keywords[i] \in Range(tokens)
              /\ \A k \in DOMAIN keywords[i] : keywords[i][k] \in LowerSet \cup Digits
              /\ Len(keywords[i]) > 2
              /\ keywords[i] \notin STOP_WORDS
        /\ \A i, j \in DOMAIN keywords :
              i < j =>
                 \/ occurrences(tokens, keywords[i]) > occurrences(tokens, keywords[j])
                 \/ /\ occurrences(tokens, keywords[i]) = occurrences(tokens, keywords[j])
                    /\ firstSeen(tokens, keywords[i]) < firstSeen(tokens, keywords[j])
        /\ \A token \in Range(tokens) \ listed :
              \A i \in DOMAIN keywords :
                 occurrences(tokens, token) <= occurrences(tokens, keywords[i])

\* seven different tokens, of which the one seen last occurs most often and
\* is listed first, and one of the others is left out
C14_Witness ==
    LET tokens == cleanTokens(compiledText) IN
    /\ Cardinality(Range(tokens)) = 7
    /\ Len(analysis.keywords) = 6
    /\ analysis.keywords[1] = <<"g", "n", "u">>
    /\ analysis.keywords[2] = <<"a", "n", "t">>
    /\ <<"f", "o", "x">> \notin Range(analysis.keywords)

\* C15: the ids of the entries of the Insight list are pairwise different;
\* the id of a dynamic insight is "cluster-" followed by the keyword of its
\* cluster, and it differs from every baseline id.
C15_InsightIdsUnique ==
    /\ \A i, j \in DOMAIN insights : i # j => insights[i].id # insights[j].id
    /\ \A i \in DOMAIN analysis.clusters :
          i \in DOMAIN insights =>
             /\ insights[i].id = <<"c", "l", "u", "s", "t", "e", "r", "-">> \o analysis.keywords[i]
             /\ \A b \in DOMAIN BASE_INSIGHTS : insights[i].id # BASE_INSIGHTS[b].id

\* three dynamic insights stand in front of two baseline insights
C15_Witness ==
    /\ Len(insights) = 5
    /\ Len(analysis.clusters) = 3
    /\ insights[1].id = <<"c", "l", "u", "s", "t", "e", "r", "-", "w", "i", "n">>
    /\ IsBaseline(insights[5])

====
